---- MODULE Spec2Model ----
(***************************************************************************)
(* BinaryMinHeap of source/binaryheap.py as a state machine.               *)
(* The Python list self.items is a TLA+ sequence; Python index k is the    *)
(* TLA+ index k+1.  Every method is an operator from the list before the   *)
(* call to a record [items, ret, err]: the list after the call, the        *)
(* returned value (<<v>>, or <<>> when nothing is returned) and the        *)
(* exception that ended the call ("none", "ValueError", "IndexError").     *)
(***************************************************************************)
EXTENDS Integers, Sequences, FiniteSets, Bags, TLC

\* ---- bounds of the model ----
MaxVal == 3
MaxInserts == 4
IndexMargin == 1

Values == 1..MaxVal

VARIABLES items, op, arg, ret, err, prev, shadow, nIns, nDel, phase, inserted, out

vars == <<items, op, arg, ret, err, prev, shadow, nIns, nDel, phase, inserted, out>>

\* ---- outcomes ----
Ok(s, r) == [items |-> s, ret |-> r, err |-> "none"]
Raise(s, e) == [items |-> s, ret |-> <<>>, err |-> e]

\* ---- list primitives ----
At(s, k) == s[k + 1]
SetAt(s, k, v) == [s EXCEPT ![k + 1] = v]
Pop(s) == SubSeq(s, 1, Len(s) - 1)

\* ---- queries and index helpers ----
size(s) == Len(s)

\* is_empty that compares the length with 1
is_empty_offByOne(s) == IF Len(s) = 1 THEN TRUE ELSE FALSE

is_empty(s) == IF Len(s) = 0 THEN TRUE ELSE FALSE

_last_index(s) == Len(s) - 1

\* n << k and n >> k on Python integers
ShiftLeft(n, k) == n * (2 ^ k)
ShiftRight(n, k) == n \div (2 ^ k)

\* _parent_index that shifts the index itself (index >> 1)
_parent_index_noMinusOne(index) ==
  IF index <= 0 THEN [val |-> <<>>, err |-> "IndexError"]
  ELSE [val |-> <<ShiftRight(index, 1)>>, err |-> "none"]

_parent_index(index) ==
  IF index <= 0 THEN [val |-> <<>>, err |-> "IndexError"]
  ELSE [val |-> <<ShiftRight(index - 1, 1)>>, err |-> "none"]

_left_child_index(index) == ShiftLeft(index, 1) + 1

_right_child_index(index) == ShiftLeft(index, 1) + 2

\* ---- restructuring routines: the swap and the recursion are not written
\* in the source (TODO comments), so both return with the list as it was ----
_bubble_up(s, index) ==
  IF index = 0 THEN Ok(s, <<>>)
  ELSE IF ~(0 <= index /\ index <= _last_index(s)) THEN Raise(s, "IndexError")
  ELSE LET item == At(s, index)
           parent_index == _parent_index(index)
       IN IF parent_index.err # "none" THEN Raise(s, parent_index.err)
          ELSE LET parent_item == At(s, parent_index.val[1])
               IN Ok(s, <<>>)

\* _bubble_down that only rejects negative indexes
_bubble_down_noUpperCheck(s, index) ==
  IF ~(0 <= index) THEN Raise(s, "IndexError")
  ELSE LET left_index == _left_child_index(index)
           right_index == _right_child_index(index)
       IN IF left_index > _last_index(s) THEN Ok(s, <<>>)
          ELSE LET item == At(s, index)
                   child_index == 0
                   child_item == At(s, child_index)
               IN Ok(s, <<>>)

_bubble_down(s, index) ==
  IF ~(0 <= index /\ index <= _last_index(s)) THEN Raise(s, "IndexError")
  ELSE LET left_index == _left_child_index(index)
           right_index == _right_child_index(index)
       IN IF left_index > _last_index(s) THEN Ok(s, <<>>)
          ELSE LET item == At(s, index)
                   child_index == 0
                   child_item == At(s, child_index)
               IN Ok(s, <<>>)

\* ---- the internal calls and the item accesses a call makes, in order ----
\* fn is the routine called, or "items[]" for an access of self.items[index];
\* last is the last valid index of the list at that moment
Step(fn, s, index) == <<[fn |-> fn, index |-> index, last |-> _last_index(s)]>>

_bubble_up_steps(s, index) ==
  IF index = 0 THEN <<>>
  ELSE IF ~(0 <= index /\ index <= _last_index(s)) THEN <<>>
  ELSE Step("items[]", s, index) \o Step("_parent_index", s, index)
       \o (IF _parent_index(index).err # "none" THEN <<>>
           ELSE Step("items[]", s, _parent_index(index).val[1]))

_bubble_down_steps(s, index) ==
  IF ~(0 <= index /\ index <= _last_index(s)) THEN <<>>
  ELSE IF _left_child_index(index) > _last_index(s) THEN <<>>
  ELSE Step("items[]", s, index) \o Step("items[]", s, 0)

insert_steps(s, item) ==
  LET s1 == Append(s, item)
  IN IF size(s1) > 1
     THEN Step("_bubble_up", s1, _last_index(s1)) \o _bubble_up_steps(s1, _last_index(s1))
     ELSE <<>>

get_min_steps(s) == IF size(s) = 0 THEN <<>> ELSE Step("items[]", s, 0)

delete_min_steps(s) ==
  IF size(s) = 0 THEN <<>>
  ELSE IF size(s) = 1 THEN <<>>
  ELSE LET s1 == SetAt(Pop(s), 0, At(s, _last_index(s)))
       IN Step("items[]", s, 0) \o Step("items[]", Pop(s), 0)
          \o (IF size(s1) > 1
              THEN Step("_bubble_down", s1, 0) \o _bubble_down_steps(s1, 0)
              ELSE <<>>)

replace_min_steps(s, item) ==
  IF size(s) = 0 THEN <<>>
  ELSE LET s1 == SetAt(s, 0, item)
       IN Step("items[]", s, 0) \o Step("items[]", s, 0)
          \o (IF size(s1) > 1
              THEN Step("_bubble_down", s1, 0) \o _bubble_down_steps(s1, 0)
              ELSE <<>>)

\* ---- public operations ----
\* insert that bubbles up from size() instead of the last index
insert_bubblesPastEnd(s, item) ==
  LET s1 == Append(s, item)
  IN IF size(s1) > 1 THEN _bubble_up(s1, size(s1)) ELSE Ok(s1, <<>>)

insert(s, item) ==
  LET s1 == Append(s, item)
  IN IF size(s1) > 1 THEN _bubble_up(s1, _last_index(s1)) ELSE Ok(s1, <<>>)

\* get_min with the emptiness test off by one (size() <= 1)
get_min_offByOne(s) ==
  IF size(s) <= 1 THEN Raise(s, "ValueError")
  ELSE Ok(s, <<At(s, 0)>>)

\* the loop of __init__: insert each item in order
RECURSIVE insert_each(_, _)
insert_each(s, its) ==
  IF its = <<>> THEN Ok(s, <<>>)
  ELSE LET r == insert(s, Head(its))
       IN IF r.err # "none" THEN r ELSE insert_each(r.items, Tail(its))

\* a is <<>> when no argument is given (items=None) and <<its>> otherwise
__init__(a) ==
  LET its == IF a = <<>> THEN <<>> ELSE a[1]
      s == <<>>
  IN IF its # <<>> THEN insert_each(s, its) ELSE Ok(s, <<>>)

\* get_min that removes the item it returns (items.pop(0))
get_min_removes(s) ==
  IF size(s) = 0 THEN Raise(s, "ValueError")
  ELSE Ok(SubSeq(s, 2, Len(s)), <<At(s, 0)>>)

get_min(s) ==
  IF size(s) = 0 THEN Raise(s, "ValueError")
  ELSE Ok(s, <<At(s, 0)>>)

\* delete_min that pops the last item without moving it to the root
delete_min_dropsLast(s) ==
  IF size(s) = 0 THEN Raise(s, "ValueError")
  ELSE IF size(s) = 1 THEN Ok(Pop(s), <<At(s, _last_index(s))>>)
  ELSE LET min_item == At(s, 0)
           s1 == Pop(s)
           bd == IF size(s1) > 1 THEN _bubble_down(s1, 0) ELSE Ok(s1, <<>>)
       IN IF bd.err # "none" THEN Raise(bd.items, bd.err)
          ELSE Ok(bd.items, <<min_item>>)

\* delete_min that pops before it tests for emptiness
delete_min_popsFirst(s) ==
  IF size(s) = 0 THEN Raise(s, "IndexError")
  ELSE IF size(s) = 1 THEN Raise(Pop(s), "ValueError")
  ELSE LET min_item == At(s, 0)
           last_item == At(s, _last_index(s))
           s1 == SetAt(Pop(s), 0, last_item)
           bd == IF size(s1) > 1 THEN _bubble_down(s1, 0) ELSE Ok(s1, <<>>)
       IN IF bd.err # "none" THEN Raise(bd.items, bd.err)
          ELSE Ok(bd.items, <<min_item>>)

\* delete_min whose one-item branch returns the item without removing it
delete_min_keepsOnly(s) ==
  IF size(s) = 0 THEN Raise(s, "ValueError")
  ELSE IF size(s) = 1 THEN Ok(s, <<At(s, _last_index(s))>>)
  ELSE LET min_item == At(s, 0)
           last_item == At(s, _last_index(s))
           s1 == SetAt(Pop(s), 0, last_item)
           bd == IF size(s1) > 1 THEN _bubble_down(s1, 0) ELSE Ok(s1, <<>>)
       IN IF bd.err # "none" THEN Raise(bd.items, bd.err)
          ELSE Ok(bd.items, <<min_item>>)

delete_min(s) ==
  IF size(s) = 0 THEN Raise(s, "ValueError")
  ELSE IF size(s) = 1 THEN Ok(Pop(s), <<At(s, _last_index(s))>>)
  ELSE LET min_item == At(s, 0)
           last_item == At(s, _last_index(s))
           s1 == SetAt(Pop(s), 0, last_item)
           bd == IF size(s1) > 1 THEN _bubble_down(s1, 0) ELSE Ok(s1, <<>>)
       IN IF bd.err # "none" THEN Raise(bd.items, bd.err)
          ELSE Ok(bd.items, <<min_item>>)

\* replace_min that inserts the item in front of the root (items.insert(0, item))
replace_min_grows(s, item) ==
  IF size(s) = 0 THEN Raise(s, "ValueError")
  ELSE LET min_item == At(s, 0)
           s1 == <<item>> \o s
           bd == IF size(s1) > 1 THEN _bubble_down(s1, 0) ELSE Ok(s1, <<>>)
       IN IF bd.err # "none" THEN Raise(bd.items, bd.err)
          ELSE Ok(bd.items, <<min_item>>)

\* replace_min that reads the value to return after the root was overwritten
replace_min_returnsNewRoot(s, item) ==
  IF size(s) = 0 THEN Raise(s, "ValueError")
  ELSE LET s1 == SetAt(s, 0, item)
           bd == IF size(s1) > 1 THEN _bubble_down(s1, 0) ELSE Ok(s1, <<>>)
       IN IF bd.err # "none" THEN Raise(bd.items, bd.err)
          ELSE Ok(bd.items, <<At(bd.items, 0)>>)

\* replace_min that never stores the item
replace_min_noStore(s, item) ==
  IF size(s) = 0 THEN Raise(s, "ValueError")
  ELSE LET min_item == At(s, 0)
           s1 == s
           bd == IF size(s1) > 1 THEN _bubble_down(s1, 0) ELSE Ok(s1, <<>>)
       IN IF bd.err # "none" THEN Raise(bd.items, bd.err)
          ELSE Ok(bd.items, <<min_item>>)

replace_min(s, item) ==
  IF size(s) = 0 THEN Raise(s, "ValueError")
  ELSE LET min_item == At(s, 0)
           s1 == SetAt(s, 0, item)
           bd == IF size(s1) > 1 THEN _bubble_down(s1, 0) ELSE Ok(s1, <<>>)
       IN IF bd.err # "none" THEN Raise(bd.items, bd.err)
          ELSE Ok(bd.items, <<min_item>>)

\* ---- observers used by the properties ----
Range(s) == {s[i] : i \in DOMAIN s}

BagOfSeq(s) == [v \in Range(s) |-> Cardinality({i \in DOMAIN s : s[i] = v})]

One(v) == SetToBag({v})

MinOfSet(S) == CHOOSE m \in S : \A v \in S : m <= v

IsSorted(s) == \A i \in 1..(Len(s) - 1) : s[i] <= s[i + 1]

parent(i) == (i - 1) \div 2

HeapOrder(s) == \A i \in 1..(Len(s) - 1) : At(s, parent(i)) <= At(s, i)

\* ---- the state machine ----
\* items: self.items.  op, arg, ret, err, prev: the last call, its argument,
\* its returned value, its exception and the list before it.  shadow: the
\* caller's own record of what the heap holds.  nIns, nDel: successful
\* insert and delete_min calls.  phase, inserted, out: "fill" while only
\* inserts have been made since the heap was last empty, "drain" while these
\* are followed by delete_min calls only, "mixed" otherwise; inserted is the
\* bag inserted during the fill and out the values delete_min returned.
Init ==
  /\ items = <<>>
  /\ op = "init"
  /\ arg = <<>>
  /\ ret = <<>>
  /\ err = "none"
  /\ prev = <<>>
  /\ shadow = EmptyBag
  /\ nIns = 0
  /\ nDel = 0
  /\ phase = "fill"
  /\ inserted = EmptyBag
  /\ out = <<>>

Insert(x) ==
  /\ nIns < MaxInserts
  /\ LET r == insert(items, x)
         fresh == items = <<>>
         filling == fresh \/ phase = "fill"
     IN /\ items' = r.items
        /\ op' = "insert"
        /\ arg' = <<x>>
        /\ ret' = r.ret
        /\ err' = r.err
        /\ prev' = items
        /\ shadow' = shadow (+) One(x)
        /\ nIns' = IF r.err = "none" THEN nIns + 1 ELSE nIns
        /\ nDel' = nDel
        /\ phase' = IF filling THEN "fill" ELSE "mixed"
        /\ inserted' = IF fresh THEN One(x)
                       ELSE IF filling THEN inserted (+) One(x) ELSE EmptyBag
        /\ out' = <<>>

GetMin ==
  /\ LET r == get_min(items)
     IN /\ items' = r.items
        /\ op' = "get_min"
        /\ arg' = <<>>
        /\ ret' = r.ret
        /\ err' = r.err
        /\ prev' = items
  /\ UNCHANGED <<shadow, nIns, nDel, phase, inserted, out>>

DeleteMin ==
  /\ LET r == delete_min(items)
         good == r.err = "none"
         draining == phase \in {"fill", "drain"}
     IN /\ items' = r.items
        /\ op' = "delete_min"
        /\ arg' = <<>>
        /\ ret' = r.ret
        /\ err' = r.err
        /\ prev' = items
        /\ shadow' = IF good THEN shadow (-) One(r.ret[1]) ELSE shadow
        /\ nDel' = IF good THEN nDel + 1 ELSE nDel
        /\ nIns' = nIns
        /\ phase' = IF ~good THEN phase ELSE IF draining THEN "drain" ELSE "mixed"
        /\ inserted' = inserted
        /\ out' = IF good /\ draining THEN Append(out, r.ret[1]) ELSE out

ReplaceMin(x) ==
  /\ LET r == replace_min(items, x)
         good == r.err = "none"
     IN /\ items' = r.items
        /\ op' = "replace_min"
        /\ arg' = <<x>>
        /\ ret' = r.ret
        /\ err' = r.err
        /\ prev' = items
        /\ shadow' = IF good THEN (shadow (-) One(r.ret[1])) (+) One(x) ELSE shadow
        /\ phase' = IF good THEN "mixed" ELSE phase
        /\ inserted' = IF good THEN EmptyBag ELSE inserted
        /\ out' = IF good THEN <<>> ELSE out
  /\ UNCHANGED <<nIns, nDel>>

\* size() and is_empty() assign nothing
Size ==
  /\ items' = items
  /\ op' = "size"
  /\ arg' = <<>>
  /\ ret' = <<size(items)>>
  /\ err' = "none"
  /\ prev' = items
  /\ UNCHANGED <<shadow, nIns, nDel, phase, inserted, out>>

IsEmpty ==
  /\ items' = items
  /\ op' = "is_empty"
  /\ arg' = <<>>
  /\ ret' = <<is_empty(items)>>
  /\ err' = "none"
  /\ prev' = items
  /\ UNCHANGED <<shadow, nIns, nDel, phase, inserted, out>>

Next ==
  \/ \E x \in Values : Insert(x)
  \/ GetMin
  \/ DeleteMin
  \/ \E x \in Values : ReplaceMin(x)
  \/ Size
  \/ IsEmpty

Spec == Init /\ [][Next]_vars

\* ---- construction from a given sequence ----
BulkInputs == UNION {[1..n -> Values] : n \in 0..MaxInserts}

InitBulk ==
  \E a \in {<<>>} \cup {<<its>> : its \in BulkInputs} :
    LET r == __init__(a)
    IN /\ items = r.items
       /\ op = "init"
       /\ arg = a
       /\ ret = <<>>
       /\ err = r.err
       /\ prev = <<>>
       /\ shadow = BagOfSeq(r.items)
       /\ nIns = Len(r.items)
       /\ nDel = 0
       /\ phase = "fill"
       /\ inserted = BagOfSeq(r.items)
       /\ out = <<>>

SpecBulk == InitBulk /\ [][Next]_vars

\* ---- the internal routines called directly, with any index, on a heap
\* constructed from any sequence ----
Indexes == (0 - IndexMargin)..(MaxInserts + IndexMargin)

BubbleUp(i) ==
  /\ LET r == _bubble_up(items, i)
     IN /\ items' = r.items
        /\ op' = "_bubble_up"
        /\ arg' = <<i>>
        /\ ret' = r.ret
        /\ err' = r.err
        /\ prev' = items
  /\ UNCHANGED <<shadow, nIns, nDel, phase, inserted, out>>

BubbleDown(i) ==
  /\ LET r == _bubble_down(items, i)
     IN /\ items' = r.items
        /\ op' = "_bubble_down"
        /\ arg' = <<i>>
        /\ ret' = r.ret
        /\ err' = r.err
        /\ prev' = items
  /\ UNCHANGED <<shadow, nIns, nDel, phase, inserted, out>>

ParentIndex(i) ==
  /\ LET r == _parent_index(i)
     IN /\ items' = items
        /\ op' = "_parent_index"
        /\ arg' = <<i>>
        /\ ret' = r.val
        /\ err' = r.err
        /\ prev' = items
  /\ UNCHANGED <<shadow, nIns, nDel, phase, inserted, out>>

LeftChildIndex(i) ==
  /\ LET r == _left_child_index(i)
     IN /\ items' = items
        /\ op' = "_left_child_index"
        /\ arg' = <<i>>
        /\ ret' = <<r>>
        /\ err' = "none"
        /\ prev' = items
  /\ UNCHANGED <<shadow, nIns, nDel, phase, inserted, out>>

RightChildIndex(i) ==
  /\ LET r == _right_child_index(i)
     IN /\ items' = items
        /\ op' = "_right_child_index"
        /\ arg' = <<i>>
        /\ ret' = <<r>>
        /\ err' = "none"
        /\ prev' = items
  /\ UNCHANGED <<shadow, nIns, nDel, phase, inserted, out>>

NextInternal ==
  \/ \E i \in Indexes : BubbleUp(i)
  \/ \E i \in Indexes : BubbleDown(i)
  \/ \E i \in Indexes : ParentIndex(i)
  \/ \E i \in Indexes : LeftChildIndex(i)
  \/ \E i \in Indexes : RightChildIndex(i)

SpecInternal == InitBulk /\ [][NextInternal]_vars

\* ---- properties ----
RootCalls == {"get_min", "delete_min", "replace_min"}

\* C1: heap order holds in every reachable state: for every position i with
\* 0 < i < size(), items[parent(i)] <= items[i], where parent(i) = (i-1) div 2.
C1_HeapOrder == HeapOrder(items)

\* C2: on a non-empty heap get_min() returns the minimum of the elements
\* held, computed over the shadow collection.
C2_GetMinIsMinimum ==
  (op = "get_min" /\ prev # <<>>) =>
     (err = "none" /\ ret = <<MinOfSet(BagToSet(shadow))>>)

\* C3: after inserting into an empty heap, as many delete_min calls as there
\* were inserts return the values in non-decreasing order and leave the heap
\* empty.
C3_SortedExtraction ==
  (phase = "drain" /\ Len(out) = BagCardinality(inserted)) =>
     (IsSorted(out) /\ items = <<>>)

\* C4: no element is lost or duplicated: when delete_min has emptied a heap
\* that was filled by inserts, the bag of returned values is the bag of
\* inserted values.
C4_NoLossNoDup ==
  (phase = "drain" /\ items = <<>>) => BagOfSeq(out) = inserted

C4_Witness ==
  /\ phase = "drain"
  /\ items = <<>>
  /\ Len(out) >= 3
  /\ Cardinality(Range(out)) >= 2
  /\ ~IsSorted(out)

\* C5: size accounting: insert adds one to size(), a successful delete_min
\* takes one away, a successful replace_min leaves it, and size() is the
\* number of inserts minus the number of successful delete_min calls.
C5_SizeAccounting ==
  /\ (op = "insert" /\ err = "none") => size(items) = size(prev) + 1
  /\ (op = "delete_min" /\ err = "none") => size(items) = size(prev) - 1
  /\ (op = "replace_min" /\ err = "none") => size(items) = size(prev)
  /\ size(items) = nIns - nDel

C5_Witness ==
  /\ op = "replace_min"
  /\ err = "none"
  /\ nIns >= 3
  /\ nDel >= 1
  /\ size(items) = 2

\* C6: on an empty heap get_min, delete_min and replace_min end in
\* ValueError and return nothing; on a non-empty heap none of them ends in
\* ValueError.
C6_EmptyErrors ==
  op \in RootCalls =>
     /\ prev = <<>> => (err = "ValueError" /\ ret = <<>>)
     /\ prev # <<>> => err # "ValueError"

C6_Witness ==
  /\ op = "get_min"
  /\ prev = <<>>
  /\ err = "ValueError"
  /\ nDel >= 1

\* C7: a call of get_min, delete_min or replace_min that ends in an error
\* leaves the items sequence as it was before the call.
C7_ErrorBeforeMutation ==
  (op \in RootCalls /\ err # "none") => items = prev

C7_Witness ==
  /\ op = "replace_min"
  /\ err = "ValueError"
  /\ arg # <<>>
  /\ items = <<>>
  /\ nDel >= 1

\* C8: on a non-empty heap replace_min(x) returns the value delete_min()
\* would return from the same state.
C8_ReplaceReturnsDeleteValue ==
  (op = "replace_min" /\ prev # <<>>) =>
     (err = "none" /\ ret = delete_min(prev).ret)

C8_Witness ==
  /\ op = "replace_min"
  /\ err = "none"
  /\ Len(prev) >= 3
  /\ arg # ret
  /\ ~HeapOrder(prev)

\* C9: after replace_min(x) on a non-empty heap get_min() is <= every
\* element of the remaining elements together with x.
C9_ReplaceLeavesMinimumAtRoot ==
  (op = "replace_min" /\ err = "none") =>
     LET rest == (BagOfSeq(prev) (-) One(ret[1])) (+) One(arg[1])
         m == get_min(items)
     IN m.err = "none" /\ \A v \in BagToSet(rest) : m.ret[1] <= v

\* C10: after replace_min(x) on a non-empty heap the bag of elements held is
\* the bag held after delete_min() followed by insert(x) from the same state.
C10_ReplaceIsDeleteThenInsert ==
  (op = "replace_min" /\ prev # <<>>) =>
     BagOfSeq(items) = BagOfSeq(insert(delete_min(prev).items, arg[1]).items)

C10_Witness ==
  /\ op = "replace_min"
  /\ err = "none"
  /\ Len(prev) >= 3
  /\ arg[1] \notin Range(prev)
  /\ items # insert(delete_min(prev).items, arg[1]).items

\* C11: after insert(x) on an empty heap, get_min() returns x, and
\* delete_min() returns x and leaves the heap empty (size() = 0, is_empty()).
C11_SingleElement ==
  (op = "insert" /\ prev = <<>>) =>
     LET g == get_min(items)
         d == delete_min(items)
     IN /\ g.err = "none" /\ g.ret = arg
        /\ d.err = "none" /\ d.ret = arg
        /\ d.items = <<>> /\ size(d.items) = 0 /\ is_empty(d.items)

C11_Witness ==
  /\ op = "insert"
  /\ prev = <<>>
  /\ items = arg
  /\ nDel >= 1

\* C12: get_min(), size() and is_empty() leave the items sequence as it was,
\* whether they succeed or fail.
C12_QueriesDoNotMutate ==
  op \in {"get_min", "size", "is_empty"} => items = prev

C12_Witness ==
  /\ op = "get_min"
  /\ err = "none"
  /\ Len(prev) >= 3
  /\ items = prev

\* the heap after creating it empty and inserting the first k items of its
RECURSIVE OneAtATime(_, _)
OneAtATime(its, k) ==
  IF k = 0 THEN <<>> ELSE insert(OneAtATime(its, k - 1), its[k]).items

\* C13: BinaryMinHeap(s) ends in the items sequence reached by creating an
\* empty heap and inserting each element of s in order, and heap order holds
\* after each of those insertions.
C13_BulkInitIsRepeatedInsert ==
  op = "init" =>
     LET its == IF arg = <<>> THEN <<>> ELSE arg[1]
     IN /\ err = "none"
        /\ items = OneAtATime(its, Len(its))
        /\ \A k \in 1..Len(its) : HeapOrder(OneAtATime(its, k))

\* C14: is_empty() is true exactly when size() = 0, and size() is the length
\* of the items sequence.
C14_IsEmptyIffSizeZero ==
  /\ is_empty(items) = (size(items) = 0)
  /\ size(items) = Len(items)
  /\ op = "is_empty" => ret = <<size(prev) = 0>>
  /\ op = "size" => ret = <<Len(prev)>>

C14_Witness ==
  /\ op = "is_empty"
  /\ ret = <<TRUE>>
  /\ nIns >= 2
  /\ nDel = nIns

\* the steps of the last public call
LastSteps ==
  IF op = "insert" THEN insert_steps(prev, arg[1])
  ELSE IF op = "get_min" THEN get_min_steps(prev)
  ELSE IF op = "delete_min" THEN delete_min_steps(prev)
  ELSE IF op = "replace_min" THEN replace_min_steps(prev, arg[1])
  ELSE <<>>

StepInRange(e) ==
  IF e.fn = "_parent_index" THEN 0 < e.index /\ e.index <= e.last
  ELSE 0 <= e.index /\ e.index <= e.last

\* C15: no call of the public API ends in IndexError: every internal call of
\* _bubble_up, _bubble_down and _parent_index gets an index in its valid
\* range and every access items[k] has 0 <= k <= size()-1.
C15_NoIndexError ==
  /\ err # "IndexError"
  /\ \A i \in DOMAIN LastSteps : StepInRange(LastSteps[i])

C15_Witness ==
  /\ op = "insert"
  /\ Len(items) = 4
  /\ Len(LastSteps) = 4
  /\ LastSteps[1].fn = "_bubble_up"
  /\ LastSteps[1].index = 3
  /\ LastSteps[4].index = 1

\* C16: when heap order held before insert(item), after it the bag of items
\* has gained item, item sits at a position whose parent (if any) is <= item,
\* and heap order holds at every position.
C16_SiftUpRestoresOrder ==
  (op = "insert" /\ HeapOrder(prev)) =>
     /\ err = "none"
     /\ BagOfSeq(items) = BagOfSeq(prev) (+) One(arg[1])
     /\ \E p \in 0..(Len(items) - 1) :
          /\ At(items, p) = arg[1]
          /\ p > 0 => At(items, parent(p)) <= arg[1]
     /\ HeapOrder(items)

\* heap order below the root: every position whose parent is not the root
SubtreesOrdered(s) ==
  \A i \in 1..(Len(s) - 1) : parent(i) # 0 => At(s, parent(i)) <= At(s, i)

\* C17: when both subtrees of the root satisfy heap order before
\* _bubble_down(0) on a root with at least one child, the whole sequence
\* satisfies heap order after it and holds the same items.
C17_SiftDownRestoresOrder ==
  (op = "_bubble_down" /\ arg = <<0>> /\ Len(prev) >= 2 /\ SubtreesOrdered(prev)) =>
     (err = "none" /\ HeapOrder(items) /\ BagOfSeq(items) = BagOfSeq(prev))

HelperCalls ==
  {"_bubble_up", "_bubble_down", "_parent_index", "_left_child_index",
   "_right_child_index"}

OutOfRangeCall ==
  /\ op \in HelperCalls
  /\ ~(0 <= arg[1] /\ arg[1] <= _last_index(prev))

\* C18 as stated: every helper called with an index outside [0, size()-1]
\* ends in IndexError and leaves items unchanged.
C18_AllHelpersFailFast ==
  OutOfRangeCall => (err = "IndexError" /\ items = prev)

\* C18: called with an index outside [0, size()-1], _bubble_down ends in
\* IndexError; _bubble_up ends in IndexError unless the index is 0, where it
\* returns; _parent_index ends in IndexError exactly when the index is <= 0;
\* the child index helpers return 2i+1 and 2i+2; items is unchanged by all.
C18_HelpersOutOfRange ==
  OutOfRangeCall =>
     /\ items = prev
     /\ op = "_bubble_down" => err = "IndexError"
     /\ op = "_bubble_up" => err = (IF arg[1] = 0 THEN "none" ELSE "IndexError")
     /\ op = "_parent_index" => err = (IF arg[1] <= 0 THEN "IndexError" ELSE "none")
     /\ op = "_left_child_index" => (err = "none" /\ ret = <<2 * arg[1] + 1>>)
     /\ op = "_right_child_index" => (err = "none" /\ ret = <<2 * arg[1] + 2>>)

C18_Witness ==
  /\ op = "_bubble_down"
  /\ Len(prev) >= 2
  /\ arg[1] > _last_index(prev)
  /\ err = "IndexError"

\* C19: for i >= 0 the children of i are 2i+1 and 2i+2, for i > 0 the parent
\* of i is (i-1) div 2, the parent of either child of i is i, and
\* _parent_index(0) ends in IndexError.
C19_IndexArithmetic ==
  /\ \A i \in 0..(MaxInserts + IndexMargin) :
        /\ _left_child_index(i) = 2 * i + 1
        /\ _right_child_index(i) = 2 * i + 2
        /\ _parent_index(_left_child_index(i)) = [val |-> <<i>>, err |-> "none"]
        /\ _parent_index(_right_child_index(i)) = [val |-> <<i>>, err |-> "none"]
        /\ i > 0 => _parent_index(i) = [val |-> <<(i - 1) \div 2>>, err |-> "none"]
  /\ (op = "_parent_index" /\ arg[1] > 0) =>
        (err = "none" /\ ret = <<(arg[1] - 1) \div 2>>)
  /\ (op = "_parent_index" /\ arg[1] = 0) => (err = "IndexError" /\ ret = <<>>)
  /\ (op = "_left_child_index" /\ arg[1] >= 0) => ret = <<2 * arg[1] + 1>>
  /\ (op = "_right_child_index" /\ arg[1] >= 0) => ret = <<2 * arg[1] + 2>>

C19_Witness ==
  /\ op = "_parent_index"
  /\ arg = <<_right_child_index(1)>>
  /\ ret = <<1>>
  /\ err = "none"

====
